---- MODULE Spec2Model ----
(***************************************************************************)
(* Model of the fitness-app service layer: the trainer service, the client *)
(* service and the Mongo repositories they write through.  One action per  *)
(* service operation; every action performs the whole operation, including *)
(* every repository call it makes.  The entity store is the only state.    *)
(*                                                                         *)
(* Identifiers are the ObjectIDs the repositories generate: each           *)
(* collection hands out 1, 2, ... and never reuses an id; 0 is             *)
(* primitive.NilObjectID (and a nil *ObjectID).                            *)
(***************************************************************************)
EXTENDS Integers, FiniteSets, Sequences, TLC

\* ------------------------------------------------------------------------
\* Bounds of the model
\* ------------------------------------------------------------------------
MaxPlans == 1
MaxWorkouts == 1
MaxAssignments == 1
MaxUploads == 2
MaxExercises == 1
\* plans in the store of the specification of the plan operations (PlanSpec)
MaxPlansOfPair == 2
\* AddClientByEmail calls in flight at once (UsersSpec)
MaxInflight == 2
\* exercises in the store of the specification of the assignment operations
\* (AssignSpec): one to link and another to swap it for
MaxExercisesToLink == 2

\* ------------------------------------------------------------------------
\* Domain values
\* ------------------------------------------------------------------------
Trainers == {"t1", "t2"}
Clients == {"c1", "c2"}
NilUser == "nil"

RoleTrainer == "trainer"
RoleClient == "client"

StatusAssigned == "assigned"
StatusSubmitted == "submitted"
StatusReviewed == "reviewed"
StatusCompleted == "completed"
Statuses == {StatusAssigned, StatusSubmitted, StatusReviewed, StatusCompleted}

\* Error values of the two services (the Go error variables and messages).
ErrClientNotFound == "ErrClientNotFound"
ErrClientNotRole == "ErrClientNotRole"
ErrClientAlreadyAssigned == "ErrClientAlreadyAssigned"
ErrClientNotManaged == "ErrClientNotManaged"
ErrAssignmentNotFound == "ErrAssignmentNotFound"
ErrAssignmentAccessDenied == "ErrAssignmentAccessDenied"
ErrTrainingPlanNotFound == "ErrTrainingPlanNotFound"
ErrTrainingPlanAccessDenied == "ErrTrainingPlanAccessDenied"
ErrWorkoutNotFound == "ErrWorkoutNotFound"
ErrExerciseNotFound == "ErrExerciseNotFound"
ErrExerciseAccessDenied == "ErrExerciseAccessDenied"
ErrAssignmentNotBelongToClient == "ErrAssignmentNotBelongToClient"
ErrUploadNotAllowed == "ErrUploadNotAllowed"
ErrUploadConfirmationFailed == "ErrUploadConfirmationFailed"
ErrInvalidAssignmentStatusUpdate == "ErrInvalidAssignmentStatusUpdate"
ErrInvalidFeedbackStatus == "invalid status transition for feedback"
ErrWorkoutNotOwned == "access denied: trainer does not own this workout"
ErrAssignmentNotInWorkout == "assignment does not belong to the specified workout"
ErrWorkoutNotInPlan == "workout does not belong to the specified training plan"
ErrInvalidContentType == "invalid or missing video content type"
ErrKeyRequired == "client ID, assignment ID, and object key are required"
ErrPlanUpdateArgs == "trainer ID, plan ID, and new plan name are required"
ErrPlanClientChange == "cannot change the client associated with a training plan via update"
ErrWorkoutUpdateArgs == "trainer ID, plan ID, workout ID, and new workout name are required"
ErrUploadNotFoundForAssignment == "ErrUploadNotFoundForAssignment"
ErrUploadMetadataMissing == "ErrUploadMetadataMissing"
ErrStatusEmpty == "new status cannot be empty"
ErrStatusUpdateFailed == "failed to update assignment status"
ErrLogPerformanceFailed == "failed to log performance"
ErrUpdateAssignmentFailed == "failed to update assignment details"
ErrStore == "store error"
OK == "ok"

PlanIds == 1..MaxPlans
WorkoutIds == 1..MaxWorkouts
AssignmentIds == 1..MaxAssignments
UploadIds == 1..MaxUploads
ExerciseIds == 1..MaxExercises

\* uuid.NewString() of RequestUploadURL
UUIDs == {"u1", "u2"}
\* Content types a caller sends: a video type and a non-video type.
ContentTypes == {"video/mp4", "image/png"}
\* Names a caller sends for a plan or a workout (the empty one is refused).
Names == {"", "n"}
\* Feedback texts and achieved-sets values a caller sends.
Feedbacks == {"good"}
SequenceValues == {0, 1}
\* isActive as a caller of CreateTrainingPlan sends it.
ActiveValues == {TRUE}
AchievedValues == {3}

VARIABLES
    clientTrainer,   \* users collection: User.TrainerID of each client
    trainerClients,  \* users collection: User.ClientIDs of each trainer
    exercises,       \* exercises collection: id -> owning trainer
    plans,           \* training_plans collection: id -> TrainingPlan
    workouts,        \* workouts collection: id -> Workout
    assignments,     \* assignments collection: id -> Assignment
    uploads,         \* uploads collection: id -> Upload
    issued,          \* ids handed out so far, per collection
    inflight,        \* AddClientByEmail calls that are between their two writes
    ret              \* what the last service call was and what it returned

vars == <<clientTrainer, trainerClients, exercises, plans, workouts,
          assignments, uploads, issued, inflight, ret>>


\* ------------------------------------------------------------------------
\* Helpers
\* ------------------------------------------------------------------------
Remove(f, k) == [i \in DOMAIN f \ {k} |-> f[i]]

NoKey == <<>>

\* path.Join("uploads", clientID.Hex(), assignmentID.Hex(), uniqueID + "." + ext)
ObjectKey(clientID, assignmentID, uniqueID) == <<"uploads", clientID, assignmentID, uniqueID>>

\* The keys RequestUploadURL can hand to a client for an assignment.
ObjectKeys(clientID, assignmentID) == {ObjectKey(clientID, assignmentID, u) : u \in UUIDs}

\* strings.HasPrefix(strings.ToLower(contentType), "video/")
IsVideoContentType(contentType) == contentType = "video/mp4"

Ret(op, actor, id, arg, outcome, prior, created, key) ==
    [op |-> op, actor |-> actor, id |-> id, arg |-> arg, outcome |-> outcome,
     prior |-> prior, created |-> created, key |-> key]

\* storeOk is the store's verdict on the assignment update of a call (TRUE: no
\* error); there is a verdict to draw only in a call that gets as far as the
\* update, which is one whose outcome with a good verdict is OK.
StoreReached(storeOk, outcomeIfOk) == ~storeOk => outcomeIfOk = OK

\* Status of an assignment before a call, for the record of the call.
PriorStatus(assignmentID) ==
    IF assignmentID \in DOMAIN assignments THEN assignments[assignmentID].status ELSE "none"

Init ==
    /\ clientTrainer = [c \in Clients |-> NilUser]
    /\ trainerClients = [t \in Trainers |-> {}]
    /\ exercises = <<>>
    /\ plans = <<>>
    /\ workouts = <<>>
    /\ assignments = <<>>
    /\ uploads = <<>>
    /\ issued = [plan |-> 0, workout |-> 0, assignment |-> 0, upload |-> 0, exercise |-> 0]
    /\ inflight = {}
    /\ ret = Ret("init", NilUser, 0, "", OK, "none", 0, NoKey)

\* ------------------------------------------------------------------------
\* Users: roles and e-mail lookup (users are registered before any of the
\* operations below; registration is not part of this model)
\* ------------------------------------------------------------------------
Users == Trainers \cup Clients
Emails == Users \cup {"nobody"}

Role(u) == IF u \in Trainers THEN RoleTrainer ELSE RoleClient

\* mongoUserRepository.GetByEmail: every user's e-mail is the user's name here.
GetByEmail(email) == IF email \in Users THEN email ELSE NilUser

\* ------------------------------------------------------------------------
\* Trainer service: client management
\* ------------------------------------------------------------------------
AddClientByEmailOutcome(trainerID, clientEmail) ==
    LET client == GetByEmail(clientEmail) IN
    IF client = NilUser THEN ErrClientNotFound
    ELSE IF Role(client) # RoleClient THEN ErrClientNotRole
    ELSE IF clientTrainer[client] # NilUser /\ clientTrainer[client] # trainerID
         THEN ErrClientAlreadyAssigned
    ELSE OK

\* The two writes made for every user with the client role, before the test
\* of the client's current trainer.
AddClientByEmailLinksUnchecked(trainerID, clientEmail) ==
    GetByEmail(clientEmail) \in Clients

\* Whether the call goes on to step 5, the two writes: every check has passed
\* and the client has no trainer yet (a client this trainer already manages
\* is returned without a write, line 128).
AddClientByEmailLinks(trainerID, clientEmail) ==
    /\ AddClientByEmailOutcome(trainerID, clientEmail) = OK
    /\ clientTrainer[GetByEmail(clientEmail)] = NilUser

AddClientByEmail(trainerID, clientEmail) ==
    LET client == GetByEmail(clientEmail)
        outcome == AddClientByEmailOutcome(trainerID, clientEmail)
        linked == AddClientByEmailLinks(trainerID, clientEmail)
    IN  /\ trainerClients' = IF linked
                             THEN [trainerClients EXCEPT ![trainerID] = @ \cup {client}]
                             ELSE trainerClients
        /\ clientTrainer' = IF linked
                            THEN [clientTrainer EXCEPT ![client] = trainerID]
                            ELSE clientTrainer
        /\ ret' = Ret("AddClientByEmail", trainerID, 0, "", outcome, "none", 0, NoKey)
        /\ UNCHANGED <<inflight, exercises, plans, workouts, assignments, uploads, issued>>

\* AddClientByEmail step by step, for calls that overlap and for writes the
\* store refuses.  A call in flight is a record of inflight: the caller, the
\* client it read, and the number of the write it is about to make.
\*
\* mongoUserRepository.AddClientIDToTrainer: $addToSet on the trainer's clientIds.
AddClientIDToTrainer(tc, trainerID, clientID) ==
    [tc EXCEPT ![trainerID] = @ \cup {clientID}]

\* mongoUserRepository.SetTrainerForClient: $set of the client's trainerId.
SetTrainerForClient(ct, clientID, trainerID) ==
    [ct EXCEPT ![clientID] = trainerID]

\* The two writes in the opposite order.
AddClientWriteAtSwapped(step) ==
    IF step = 1 THEN "SetTrainerForClient" ELSE "AddClientIDToTrainer"

\* The repository call AddClientByEmail makes as its first and as its second
\* write (lines 134-147).
AddClientWriteAt(step) ==
    IF step = 1 THEN "AddClientIDToTrainer" ELSE "SetTrainerForClient"

\* Steps 1-4 of AddClientByEmail: the reads and the checks.  A refused call
\* and a call for a client the trainer already manages return at once.
AddClientByEmailCheck(trainerID, clientEmail) ==
    LET client == GetByEmail(clientEmail)
        outcome == AddClientByEmailOutcome(trainerID, clientEmail)
        linked == AddClientByEmailLinks(trainerID, clientEmail)
    IN  /\ linked => Cardinality(inflight) < MaxInflight
        /\ IF linked
           THEN /\ inflight' = inflight \cup
                        {[trainerID |-> trainerID, client |-> client, step |-> 1]}
                /\ UNCHANGED ret
           ELSE /\ ret' = Ret("AddClientByEmail", trainerID, 0, "", outcome, "none", 0, NoKey)
                /\ UNCHANGED inflight
        /\ UNCHANGED <<clientTrainer, trainerClients, exercises, plans, workouts,
                       assignments, uploads, issued>>

\* Step 5: one of the two writes of a call in flight.  A write the store
\* refuses ends the call with the store's error; the first write is not
\* rolled back when the second fails.
AddClientByEmailWrite(step, trainerID, client, storeOk) ==
    LET call == [trainerID |-> trainerID, client |-> client, step |-> step]
        write == AddClientWriteAt(step)
    IN  /\ call \in inflight
        /\ trainerClients' = IF storeOk /\ write = "AddClientIDToTrainer"
                             THEN AddClientIDToTrainer(trainerClients, trainerID, client)
                             ELSE trainerClients
        /\ clientTrainer' = IF storeOk /\ write = "SetTrainerForClient"
                            THEN SetTrainerForClient(clientTrainer, client, trainerID)
                            ELSE clientTrainer
        /\ IF storeOk /\ step = 1
           THEN /\ inflight' = (inflight \ {call}) \cup {[call EXCEPT !.step = 2]}
                /\ UNCHANGED ret
           ELSE /\ inflight' = inflight \ {call}
                /\ ret' = Ret("AddClientByEmail", trainerID, 0, "",
                              IF storeOk THEN OK ELSE ErrStore, "none", 0, NoKey)
        /\ UNCHANGED <<exercises, plans, workouts, assignments, uploads, issued>>

\* ------------------------------------------------------------------------
\* Exercise service
\* ------------------------------------------------------------------------
\* CreateExercise in a store that holds at most `limit` exercise ids.
CreateExerciseWithin(limit, trainerID) ==
    /\ issued.exercise < limit
    /\ LET id == issued.exercise + 1 IN
        /\ exercises' = exercises @@ (id :> [trainerID |-> trainerID])
        /\ issued' = [issued EXCEPT !.exercise = id]
        /\ ret' = Ret("CreateExercise", trainerID, id, "", OK, "none", id, NoKey)
    /\ UNCHANGED <<inflight, clientTrainer, trainerClients, plans, workouts, assignments, uploads>>

CreateExercise(trainerID) == CreateExerciseWithin(MaxExercises, trainerID)

\* ------------------------------------------------------------------------
\* Trainer service: training plans
\* ------------------------------------------------------------------------
CreateTrainingPlanOutcome(trainerID, clientID, name) ==
    IF name = "" THEN "trainer ID, client ID, and plan name are required"
    ELSE IF clientID \notin Users THEN ErrClientNotFound
    ELSE IF Role(clientID) # RoleClient THEN "cannot assign plan: specified user is not a client"
    ELSE IF clientTrainer[clientID] # trainerID THEN ErrClientNotManaged
    ELSE OK

\* CreateTrainingPlan in a store that holds at most `limit` plan ids.  The
\* plan is inserted with the isActive the caller gave: the deactivation of the
\* pair's other active plans is commented out (lines 343-351).
CreateTrainingPlanWithin(limit, trainerID, clientID, name, isActive) ==
    LET outcome == CreateTrainingPlanOutcome(trainerID, clientID, name)
        id == issued.plan + 1
    IN  /\ outcome = OK => issued.plan < limit
        /\ IF outcome = OK
           THEN /\ plans' = plans @@ (id :> [trainerID |-> trainerID, clientID |-> clientID,
                                             isActive |-> isActive])
                /\ issued' = [issued EXCEPT !.plan = id]
           ELSE UNCHANGED <<plans, issued>>
        /\ ret' = Ret("CreateTrainingPlan", trainerID, IF outcome = OK THEN id ELSE 0,
                      "", outcome, "none", IF outcome = OK THEN id ELSE 0, NoKey)
        /\ UNCHANGED <<inflight, clientTrainer, trainerClients, exercises, workouts, assignments, uploads>>

CreateTrainingPlan(trainerID, clientID, name, isActive) ==
    CreateTrainingPlanWithin(MaxPlans, trainerID, clientID, name, isActive)

\* A ReplaceOne by a document that holds the updated fields only.
TrainingPlanRepoReplace(ps, id, plan) ==
    [ps EXCEPT ![id] = [trainerID |-> NilUser, clientID |-> NilUser,
                        isActive |-> plan.isActive]]

\* mongoTrainingPlanRepository.Update: one UpdateOne on _id that sets name,
\* description, startDate, endDate and isActive; trainerId and clientId are
\* not written.
TrainingPlanRepoUpdate(ps, id, plan) ==
    [ps EXCEPT ![id] = [trainerID |-> @.trainerID, clientID |-> @.clientID,
                        isActive |-> plan.isActive]]

\* mongoTrainingPlanRepository.DeactivateOtherPlansForClient: one UpdateMany.
DeactivateOtherPlansForClient(ps, clientID, trainerID, excludePlanID) ==
    [p \in DOMAIN ps |->
        IF /\ ps[p].clientID = clientID
           /\ ps[p].trainerID = trainerID
           /\ ps[p].isActive
           /\ p # excludePlanID
        THEN [ps[p] EXCEPT !.isActive = FALSE]
        ELSE ps[p]]

\* UpdateTrainingPlan without the consistency check of updates.ClientID.
UpdateTrainingPlanOutcomeNoClientCheck(trainerID, planID, name, clientID) ==
    IF name = "" THEN ErrPlanUpdateArgs
    ELSE IF planID \notin DOMAIN plans THEN ErrTrainingPlanNotFound
    ELSE IF plans[planID].trainerID # trainerID THEN ErrTrainingPlanAccessDenied
    ELSE OK

\* updates.ClientID = NilUser stands for primitive.NilObjectID (not given).
UpdateTrainingPlanOutcome(trainerID, planID, name, clientID) ==
    IF name = "" THEN ErrPlanUpdateArgs
    ELSE IF planID \notin DOMAIN plans THEN ErrTrainingPlanNotFound
    ELSE IF plans[planID].trainerID # trainerID THEN ErrTrainingPlanAccessDenied
    ELSE IF plans[planID].clientID # clientID /\ clientID # NilUser THEN ErrPlanClientChange
    ELSE OK

\* Whether the call gets as far as DeactivateOtherPlansForClient: every check
\* has passed and the plan is being activated (line 573).
DeactivationReached(trainerID, planID, name, clientID, isActive) ==
    /\ UpdateTrainingPlanOutcome(trainerID, planID, name, clientID) = OK
    /\ isActive
    /\ ~plans[planID].isActive

\* deactivateOk is the store's verdict on DeactivateOtherPlansForClient (TRUE:
\* no error), drawn only in a call that makes it.  An error is logged and the
\* call goes on to update the plan (lines 574-581).
UpdateTrainingPlan(trainerID, planID, name, clientID, isActive, deactivateOk) ==
    LET outcome == UpdateTrainingPlanOutcome(trainerID, planID, name, clientID) IN
        /\ ~deactivateOk => DeactivationReached(trainerID, planID, name, clientID, isActive)
        /\ plans' =
              IF outcome = OK
              THEN LET existingPlan == plans[planID]
                       others == IF isActive /\ ~existingPlan.isActive /\ deactivateOk
                                 THEN DeactivateOtherPlansForClient(plans,
                                          existingPlan.clientID, trainerID, planID)
                                 ELSE plans
                   IN TrainingPlanRepoUpdate(others, planID,
                                             [existingPlan EXCEPT !.isActive = isActive])
              ELSE plans
        /\ ret' = Ret("UpdateTrainingPlan", trainerID, planID, "", outcome, "none", 0, NoKey)
        /\ UNCHANGED <<inflight, clientTrainer, trainerClients, exercises, workouts,
                       assignments, uploads, issued>>

\* A DeleteOne filtered on _id alone.
TrainingPlanRepoDeleteMatchesIdOnly(planID, trainerID) ==
    planID \in DOMAIN plans

\* mongoTrainingPlanRepository.Delete: one DeleteOne filtered on _id and trainerId.
TrainingPlanRepoDeleteMatches(planID, trainerID) ==
    planID \in DOMAIN plans /\ plans[planID].trainerID = trainerID

DeleteTrainingPlan(trainerID, planID) ==
    LET deleted == TrainingPlanRepoDeleteMatches(planID, trainerID)
        outcome == IF deleted THEN OK ELSE ErrTrainingPlanAccessDenied
    IN  /\ plans' = IF deleted THEN Remove(plans, planID) ELSE plans
        \* the cascade over the plan's workouts is a loop with an empty body
        /\ ret' = Ret("DeleteTrainingPlan", trainerID, planID, "", outcome, "none", 0, NoKey)
        /\ UNCHANGED <<inflight, clientTrainer, trainerClients, exercises, workouts, assignments,
                       uploads, issued>>

\* ------------------------------------------------------------------------
\* Trainer service: workouts
\* ------------------------------------------------------------------------
\* CreateWorkout without the comparison of plan.TrainerID with the caller.
CreateWorkoutOutcomeNoOwnerCheck(trainerID, planID, name) ==
    IF name = "" THEN "trainer ID, plan ID, and workout name are required"
    ELSE IF planID \notin DOMAIN plans THEN ErrTrainingPlanNotFound
    ELSE OK

CreateWorkoutOutcome(trainerID, planID, name) ==
    IF name = "" THEN "trainer ID, plan ID, and workout name are required"
    ELSE IF planID \notin DOMAIN plans THEN ErrTrainingPlanNotFound
    ELSE IF plans[planID].trainerID # trainerID THEN ErrTrainingPlanAccessDenied
    ELSE OK

CreateWorkout(trainerID, planID, name) ==
    LET outcome == CreateWorkoutOutcome(trainerID, planID, name)
        id == issued.workout + 1
    IN  /\ outcome = OK => issued.workout < MaxWorkouts
        /\ IF outcome = OK
           THEN /\ workouts' = workouts @@ (id :> [trainingPlanID |-> planID,
                                                   trainerID |-> trainerID,
                                                   clientID |-> plans[planID].clientID])
                /\ issued' = [issued EXCEPT !.workout = id]
           ELSE UNCHANGED <<workouts, issued>>
        /\ ret' = Ret("CreateWorkout", trainerID, IF outcome = OK THEN id ELSE 0,
                      "", outcome, "none", IF outcome = OK THEN id ELSE 0, NoKey)
        /\ UNCHANGED <<inflight, clientTrainer, trainerClients, exercises, plans, assignments, uploads>>

\* mongoWorkoutRepository.Update: one UpdateOne on _id that sets name,
\* dayOfWeek, notes and sequence, none of which is in the workout record of
\* this model; trainingPlanId, trainerId and clientId are not written.
WorkoutRepoUpdate(id, workout) ==
    [workouts EXCEPT ![id] = [trainingPlanID |-> @.trainingPlanID,
                              trainerID |-> @.trainerID,
                              clientID |-> @.clientID]]

UpdateWorkoutOutcome(trainerID, planID, workoutID, name) ==
    IF name = "" THEN ErrWorkoutUpdateArgs
    ELSE IF workoutID \notin DOMAIN workouts THEN ErrWorkoutNotFound
    ELSE IF workouts[workoutID].trainingPlanID # planID THEN ErrWorkoutNotInPlan
    ELSE IF workouts[workoutID].trainerID # trainerID THEN ErrWorkoutNotOwned
    ELSE OK

UpdateWorkout(trainerID, planID, workoutID, name) ==
    LET outcome == UpdateWorkoutOutcome(trainerID, planID, workoutID, name) IN
        /\ workouts' = IF outcome = OK
                       THEN WorkoutRepoUpdate(workoutID, workouts[workoutID])
                       ELSE workouts
        /\ ret' = Ret("UpdateWorkout", trainerID, workoutID, "", outcome, "none", 0, NoKey)
        /\ UNCHANGED <<inflight, clientTrainer, trainerClients, exercises, plans, assignments,
                       uploads, issued>>

\* mongoWorkoutRepository.Delete: one DeleteOne filtered on _id and trainerId.
WorkoutRepoDeleteMatches(workoutID, trainerID) ==
    workoutID \in DOMAIN workouts /\ workouts[workoutID].trainerID = trainerID

DeleteWorkoutOutcome(trainerID, planID, workoutID) ==
    IF workoutID \notin DOMAIN workouts THEN ErrWorkoutNotFound
    ELSE IF workouts[workoutID].trainingPlanID # planID THEN ErrWorkoutNotInPlan
    ELSE IF workouts[workoutID].trainerID # trainerID THEN ErrWorkoutNotOwned
    ELSE IF ~WorkoutRepoDeleteMatches(workoutID, trainerID) THEN ErrWorkoutNotFound
    ELSE OK

DeleteWorkout(trainerID, planID, workoutID) ==
    LET outcome == DeleteWorkoutOutcome(trainerID, planID, workoutID) IN
        \* the cascade over the workout's assignments is commented out
        /\ workouts' = IF outcome = OK THEN Remove(workouts, workoutID) ELSE workouts
        /\ ret' = Ret("DeleteWorkout", trainerID, workoutID, "", outcome, "none", 0, NoKey)
        /\ UNCHANGED <<inflight, clientTrainer, trainerClients, exercises, plans, assignments,
                       uploads, issued>>

\* ------------------------------------------------------------------------
\* Assignment repository
\* ------------------------------------------------------------------------
\* mongoAssignmentRepository.Create without the default of the status.
AssignmentRepoCreateNoDefault(details) == details

\* mongoAssignmentRepository.Create: the status defaults to assigned when the
\* caller leaves it empty.
AssignmentRepoCreate(details) ==
    [details EXCEPT !.status = IF @ = "" THEN StatusAssigned ELSE @]

\* mongoAssignmentRepository.Update with uploadId left out of the fields it
\* writes.
AssignmentRepoUpdateNoUploadID(id, a) ==
    [assignments EXCEPT ![id] = [workoutID |-> @.workoutID,
                                 exerciseID |-> a.exerciseID,
                                 sequence |-> a.sequence,
                                 status |-> a.status,
                                 uploadID |-> @.uploadID,
                                 feedback |-> a.feedback,
                                 achievedSets |-> a.achievedSets]]

\* mongoAssignmentRepository.Update: one UpdateOne on _id that writes every
\* field of the struct it is given except workoutId.  The operand it sends is
\* {"$set": setDoc} with setDoc = {"$set": {...}} already (lines 629-665), and
\* whether UpdateOne returns an error for it is the store's verdict: the callers
\* pass that verdict in and write only when there was no error.
AssignmentRepoUpdate(id, a) ==
    [assignments EXCEPT ![id] = [workoutID |-> @.workoutID,
                                 exerciseID |-> a.exerciseID,
                                 sequence |-> a.sequence,
                                 status |-> a.status,
                                 uploadID |-> a.uploadID,
                                 feedback |-> a.feedback,
                                 achievedSets |-> a.achievedSets]]

\* mongoAssignmentRepository.Delete: one DeleteOne filtered on _id and workoutId.
AssignmentRepoDeleteMatches(assignmentID, workoutID) ==
    assignmentID \in DOMAIN assignments /\ assignments[assignmentID].workoutID = workoutID

\* ------------------------------------------------------------------------
\* Trainer service: assignments
\* ------------------------------------------------------------------------
AssignExerciseToWorkoutOutcome(trainerID, workoutID, exerciseID) ==
    IF workoutID \notin DOMAIN workouts THEN ErrWorkoutNotFound
    ELSE IF workouts[workoutID].trainerID # trainerID THEN ErrWorkoutNotOwned
    ELSE IF exerciseID \notin DOMAIN exercises THEN ErrExerciseNotFound
    ELSE IF exercises[exerciseID].trainerID # trainerID THEN ErrExerciseAccessDenied
    ELSE OK

\* assignmentDetails as the callers of the service build it: the prescribed
\* parameters only, every client-tracking field at its zero value.
AssignExerciseToWorkout(trainerID, workoutID, exerciseID, sequence) ==
    LET outcome == AssignExerciseToWorkoutOutcome(trainerID, workoutID, exerciseID)
        id == issued.assignment + 1
        details == [workoutID |-> workoutID, exerciseID |-> exerciseID,
                    sequence |-> sequence, status |-> "", uploadID |-> 0,
                    feedback |-> "", achievedSets |-> 0]
    IN  /\ outcome = OK => issued.assignment < MaxAssignments
        /\ IF outcome = OK
           THEN /\ assignments' = assignments @@ (id :> AssignmentRepoCreate(details))
                /\ issued' = [issued EXCEPT !.assignment = id]
           ELSE UNCHANGED <<assignments, issued>>
        /\ ret' = Ret("AssignExerciseToWorkout", trainerID, IF outcome = OK THEN id ELSE 0,
                      "", outcome, "none", IF outcome = OK THEN id ELSE 0, NoKey)
        /\ UNCHANGED <<inflight, clientTrainer, trainerClients, exercises, plans, workouts, uploads>>

\* SubmitFeedback without the comparison of workout.TrainerID with the caller.
SubmitFeedbackOutcomeNoOwnerCheck(trainerID, assignmentID, newStatus, storeOk) ==
    IF newStatus # "" /\ ~(newStatus = StatusReviewed \/ newStatus = StatusCompleted)
    THEN ErrInvalidFeedbackStatus
    ELSE IF assignmentID \notin DOMAIN assignments THEN ErrAssignmentNotFound
    ELSE IF assignments[assignmentID].workoutID \notin DOMAIN workouts THEN ErrWorkoutNotFound
    ELSE IF ~storeOk THEN ErrStore
    ELSE OK

\* SubmitFeedback refusing every call on an assignment that is completed.
SubmitFeedbackOutcomeCompletedFinal(trainerID, assignmentID, newStatus, storeOk) ==
    IF newStatus # "" /\ ~(newStatus = StatusReviewed \/ newStatus = StatusCompleted)
    THEN ErrInvalidFeedbackStatus
    ELSE IF assignmentID \notin DOMAIN assignments THEN ErrAssignmentNotFound
    ELSE IF assignments[assignmentID].workoutID \notin DOMAIN workouts THEN ErrWorkoutNotFound
    ELSE IF workouts[assignments[assignmentID].workoutID].trainerID # trainerID
         THEN ErrAssignmentAccessDenied
    ELSE IF assignments[assignmentID].status = StatusCompleted THEN ErrInvalidFeedbackStatus
    ELSE IF ~storeOk THEN ErrStore
    ELSE OK

SubmitFeedbackOutcome(trainerID, assignmentID, newStatus, storeOk) ==
    IF newStatus # "" /\ ~(newStatus = StatusReviewed \/ newStatus = StatusCompleted)
    THEN ErrInvalidFeedbackStatus
    ELSE IF assignmentID \notin DOMAIN assignments THEN ErrAssignmentNotFound
    ELSE IF assignments[assignmentID].workoutID \notin DOMAIN workouts THEN ErrWorkoutNotFound
    ELSE IF workouts[assignments[assignmentID].workoutID].trainerID # trainerID
         THEN ErrAssignmentAccessDenied
    ELSE IF ~storeOk THEN ErrStore
    ELSE OK

SubmitFeedback(trainerID, assignmentID, feedback, newStatus, storeOk) ==
    LET outcome == SubmitFeedbackOutcome(trainerID, assignmentID, newStatus, storeOk) IN
        /\ StoreReached(storeOk, SubmitFeedbackOutcome(trainerID, assignmentID, newStatus, TRUE))
        /\ assignments' =
              IF outcome = OK
              THEN LET a == assignments[assignmentID]
                       a1 == [a EXCEPT !.feedback = feedback]
                       a2 == IF newStatus # "" THEN [a1 EXCEPT !.status = newStatus] ELSE a1
                   IN AssignmentRepoUpdate(assignmentID, a2)
              ELSE assignments
        /\ ret' = Ret("SubmitFeedback", trainerID, assignmentID, newStatus, outcome,
                      PriorStatus(assignmentID), 0, NoKey)
        /\ UNCHANGED <<inflight, clientTrainer, trainerClients, exercises, plans, workouts,
                       uploads, issued>>

\* updates.ExerciseID = 0 stands for primitive.NilObjectID (no exercise change).
\* UpdateAssignmentInWorkout without the lookup and the owner test of the new
\* exercise.
UpdateAssignmentInWorkoutOutcomeNoExerciseCheck(trainerID, workoutID, assignmentID, exerciseID, storeOk) ==
    IF assignmentID \notin DOMAIN assignments THEN ErrAssignmentNotFound
    ELSE IF assignments[assignmentID].workoutID # workoutID THEN ErrAssignmentNotInWorkout
    ELSE IF workoutID \notin DOMAIN workouts THEN ErrWorkoutNotFound
    ELSE IF workouts[workoutID].trainerID # trainerID THEN ErrWorkoutNotOwned
    ELSE IF ~storeOk THEN ErrUpdateAssignmentFailed
    ELSE OK

UpdateAssignmentInWorkoutOutcome(trainerID, workoutID, assignmentID, exerciseID, storeOk) ==
    IF assignmentID \notin DOMAIN assignments THEN ErrAssignmentNotFound
    ELSE IF assignments[assignmentID].workoutID # workoutID THEN ErrAssignmentNotInWorkout
    ELSE IF workoutID \notin DOMAIN workouts THEN ErrWorkoutNotFound
    ELSE IF workouts[workoutID].trainerID # trainerID THEN ErrWorkoutNotOwned
    ELSE IF exerciseID # 0 /\ exerciseID # assignments[assignmentID].exerciseID
            /\ exerciseID \notin DOMAIN exercises THEN ErrExerciseNotFound
    ELSE IF exerciseID # 0 /\ exerciseID # assignments[assignmentID].exerciseID
            /\ exercises[exerciseID].trainerID # trainerID THEN ErrExerciseAccessDenied
    ELSE IF ~storeOk THEN ErrUpdateAssignmentFailed
    ELSE OK

UpdateAssignmentInWorkout(trainerID, workoutID, assignmentID, exerciseID, sequence, storeOk) ==
    LET outcome == UpdateAssignmentInWorkoutOutcome(trainerID, workoutID, assignmentID,
                                                    exerciseID, storeOk)
    IN  /\ StoreReached(storeOk, UpdateAssignmentInWorkoutOutcome(trainerID, workoutID,
                                      assignmentID, exerciseID, TRUE))
        /\ assignments' =
              IF outcome = OK
              THEN LET a == assignments[assignmentID]
                       a1 == IF exerciseID # 0 /\ exerciseID # a.exerciseID
                             THEN [a EXCEPT !.exerciseID = exerciseID] ELSE a
                       a2 == [a1 EXCEPT !.sequence = sequence]
                   IN AssignmentRepoUpdate(assignmentID, a2)
              ELSE assignments
        /\ ret' = Ret("UpdateAssignmentInWorkout", trainerID, assignmentID, "", outcome,
                      PriorStatus(assignmentID), 0, NoKey)
        /\ UNCHANGED <<inflight, clientTrainer, trainerClients, exercises, plans, workouts,
                       uploads, issued>>

DeleteAssignmentFromWorkoutOutcome(trainerID, workoutID, assignmentID) ==
    IF assignmentID \notin DOMAIN assignments THEN ErrAssignmentNotFound
    ELSE IF assignments[assignmentID].workoutID # workoutID THEN ErrAssignmentNotInWorkout
    ELSE IF workoutID \notin DOMAIN workouts THEN ErrWorkoutNotFound
    ELSE IF workouts[workoutID].trainerID # trainerID THEN ErrWorkoutNotOwned
    ELSE IF ~AssignmentRepoDeleteMatches(assignmentID, workoutID) THEN ErrAssignmentNotFound
    ELSE OK

DeleteAssignmentFromWorkout(trainerID, workoutID, assignmentID) ==
    LET outcome == DeleteAssignmentFromWorkoutOutcome(trainerID, workoutID, assignmentID) IN
        /\ assignments' = IF outcome = OK THEN Remove(assignments, assignmentID)
                          ELSE assignments
        /\ ret' = Ret("DeleteAssignmentFromWorkout", trainerID, assignmentID, "", outcome,
                      PriorStatus(assignmentID), 0, NoKey)
        /\ UNCHANGED <<inflight, clientTrainer, trainerClients, exercises, plans, workouts,
                       uploads, issued>>

\* ------------------------------------------------------------------------
\* Upload repository
\* ------------------------------------------------------------------------
\* EnsureUploadIndexes, run at start-up: the index on assignmentId is unique.
UploadAssignmentIndexUnique == TRUE

\* mongoUploadRepository.Create on a collection without the unique index.
UploadRepoCreateNoIndex(upload) ==
    /\ upload.assignmentID # 0
    /\ upload.clientID # NilUser
    /\ upload.trainerID # NilUser
    /\ upload.s3ObjectKey # NoKey

\* mongoUploadRepository.Create: the field validation, then InsertOne, which
\* the unique index on assignmentId refuses when the assignment already has
\* an upload document.
UploadRepoCreateOk(upload) ==
    /\ upload.assignmentID # 0
    /\ upload.clientID # NilUser
    /\ upload.trainerID # NilUser
    /\ upload.s3ObjectKey # NoKey
    /\ UploadAssignmentIndexUnique =>
          \A u \in DOMAIN uploads : uploads[u].assignmentID # upload.assignmentID

\* ------------------------------------------------------------------------
\* Client service: the upload flow
\* ------------------------------------------------------------------------
\* A status gate that forgets the pending review: it lets every status through.
UploadAllowedAnyStatus(status) == status \in Statuses

\* The status gate of RequestUploadURL.
UploadAllowed(status) ==
    ~(status # StatusAssigned /\ status # StatusReviewed /\ status # StatusCompleted)

RequestUploadURLOutcome(clientID, assignmentID, contentType) ==
    IF contentType = "" \/ ~IsVideoContentType(contentType) THEN ErrInvalidContentType
    ELSE IF assignmentID \notin DOMAIN assignments THEN ErrAssignmentNotFound
    ELSE IF assignments[assignmentID].workoutID \notin DOMAIN workouts THEN ErrWorkoutNotFound
    ELSE IF workouts[assignments[assignmentID].workoutID].clientID # clientID
         THEN ErrAssignmentNotBelongToClient
    ELSE IF ~UploadAllowed(assignments[assignmentID].status) THEN ErrUploadNotAllowed
    ELSE OK

\* No write: the key and the pre-signed URL are computed and returned.
RequestUploadURL(clientID, assignmentID, contentType, uniqueID) ==
    LET outcome == RequestUploadURLOutcome(clientID, assignmentID, contentType) IN
        /\ ret' = Ret("RequestUploadURL", clientID, assignmentID, contentType, outcome,
                      PriorStatus(assignmentID), 0,
                      IF outcome = OK THEN ObjectKey(clientID, assignmentID, uniqueID)
                      ELSE NoKey)
        /\ UNCHANGED <<inflight, clientTrainer, trainerClients, exercises, plans, workouts,
                       assignments, uploads, issued>>

\* The checks of ConfirmUpload that come before its first write.
ConfirmUploadAuthOutcome(clientID, assignmentID, objectKey) ==
    IF objectKey = NoKey THEN ErrKeyRequired
    ELSE IF assignmentID \notin DOMAIN assignments THEN ErrAssignmentNotFound
    ELSE IF assignments[assignmentID].workoutID \notin DOMAIN workouts THEN ErrWorkoutNotFound
    ELSE IF workouts[assignments[assignmentID].workoutID].clientID # clientID
         THEN ErrAssignmentNotBelongToClient
    ELSE OK

\* What ConfirmUpload does to the uploads collection when the assignment
\* update that follows the insert has failed: the compensating delete is
\* commented out, so the inserted document stays.
ConfirmUploadCompensate(uploadsAfterInsert, uploadID) == uploadsAfterInsert

ConfirmUpload(clientID, assignmentID, objectKey, storeOk) ==
    LET auth == ConfirmUploadAuthOutcome(clientID, assignmentID, objectKey)
        id == issued.upload + 1
    IN  IF auth # OK
        THEN /\ storeOk
             /\ ret' = Ret("ConfirmUpload", clientID, assignmentID, "", auth,
                           PriorStatus(assignmentID), 0, NoKey)
             /\ UNCHANGED <<inflight, clientTrainer, trainerClients, exercises, plans, workouts,
                            assignments, uploads, issued>>
        ELSE LET a == assignments[assignmentID]
                 upload == [assignmentID |-> assignmentID, clientID |-> clientID,
                            trainerID |-> workouts[a.workoutID].trainerID,
                            s3ObjectKey |-> objectKey]
             IN  IF ~UploadRepoCreateOk(upload)
                 THEN /\ storeOk
                      /\ ret' = Ret("ConfirmUpload", clientID, assignmentID, "",
                                    ErrUploadConfirmationFailed, a.status, 0, NoKey)
                      /\ UNCHANGED <<inflight, clientTrainer, trainerClients, exercises, plans,
                                     workouts, assignments, uploads, issued>>
                 ELSE /\ issued.upload < MaxUploads
                      /\ issued' = [issued EXCEPT !.upload = id]
                      /\ IF storeOk
                         THEN /\ uploads' = uploads @@ (id :> upload)
                              /\ assignments' = AssignmentRepoUpdate(assignmentID,
                                     [a EXCEPT !.uploadID = id, !.status = StatusSubmitted])
                              /\ ret' = Ret("ConfirmUpload", clientID, assignmentID, "", OK,
                                            a.status, id, NoKey)
                         ELSE /\ uploads' = ConfirmUploadCompensate(uploads @@ (id :> upload), id)
                              /\ assignments' = assignments
                              /\ ret' = Ret("ConfirmUpload", clientID, assignmentID, "",
                                            ErrUploadConfirmationFailed, a.status, id,
                                            NoKey)
                      /\ UNCHANGED <<inflight, clientTrainer, trainerClients, exercises, plans,
                                     workouts>>

\* ------------------------------------------------------------------------
\* Both services: the download of the uploaded video
\* ------------------------------------------------------------------------
\* An object key put together again from the ids of the upload record.
VideoObjectKeyRebuilt(upload) ==
    ObjectKey(upload.clientID, upload.assignmentID, "u1")

\* The key both services hand to fileStorage.GeneratePresignedDownloadURL.
VideoObjectKey(upload) == upload.s3ObjectKey

\* GetAssignmentVideoDownloadURL without the comparison of workout.TrainerID
\* with the caller.
TrainerDownloadOutcomeNoOwnerCheck(trainerID, assignmentID) ==
    IF assignmentID \notin DOMAIN assignments THEN ErrAssignmentNotFound
    ELSE IF assignments[assignmentID].workoutID \notin DOMAIN workouts THEN ErrWorkoutNotFound
    ELSE IF assignments[assignmentID].uploadID = 0 THEN ErrUploadNotFoundForAssignment
    ELSE IF assignments[assignmentID].uploadID \notin DOMAIN uploads
         THEN ErrUploadNotFoundForAssignment
    ELSE OK

\* trainerService.GetAssignmentVideoDownloadURL, steps 2-5.
TrainerDownloadOutcome(trainerID, assignmentID) ==
    IF assignmentID \notin DOMAIN assignments THEN ErrAssignmentNotFound
    ELSE IF assignments[assignmentID].workoutID \notin DOMAIN workouts THEN ErrWorkoutNotFound
    ELSE IF workouts[assignments[assignmentID].workoutID].trainerID # trainerID
         THEN ErrAssignmentAccessDenied
    ELSE IF assignments[assignmentID].uploadID = 0 THEN ErrUploadNotFoundForAssignment
    ELSE IF assignments[assignmentID].uploadID \notin DOMAIN uploads
         THEN ErrUploadNotFoundForAssignment
    ELSE OK

\* No write: the key of the read URL asked of the storage is in the record of
\* the call.
GetAssignmentVideoDownloadURL(trainerID, assignmentID) ==
    LET outcome == TrainerDownloadOutcome(trainerID, assignmentID) IN
        /\ ret' = Ret("GetAssignmentVideoDownloadURL", trainerID, assignmentID, "", outcome,
                      PriorStatus(assignmentID), 0,
                      IF outcome = OK
                      THEN VideoObjectKey(uploads[assignments[assignmentID].uploadID])
                      ELSE NoKey)
        /\ UNCHANGED <<inflight, clientTrainer, trainerClients, exercises, plans, workouts,
                       assignments, uploads, issued>>

\* clientService.GetMyVideoDownloadURL, steps 1-5.
ClientDownloadOutcome(clientID, assignmentID) ==
    IF assignmentID \notin DOMAIN assignments THEN ErrAssignmentNotFound
    ELSE IF assignments[assignmentID].workoutID \notin DOMAIN workouts THEN ErrWorkoutNotFound
    ELSE IF workouts[assignments[assignmentID].workoutID].clientID # clientID
         THEN ErrAssignmentNotBelongToClient
    ELSE IF assignments[assignmentID].uploadID = 0 THEN ErrUploadMetadataMissing
    ELSE IF assignments[assignmentID].uploadID \notin DOMAIN uploads
         THEN ErrUploadMetadataMissing
    ELSE OK

GetMyVideoDownloadURL(clientID, assignmentID) ==
    LET outcome == ClientDownloadOutcome(clientID, assignmentID) IN
        /\ ret' = Ret("GetMyVideoDownloadURL", clientID, assignmentID, "", outcome,
                      PriorStatus(assignmentID), 0,
                      IF outcome = OK
                      THEN VideoObjectKey(uploads[assignments[assignmentID].uploadID])
                      ELSE NoKey)
        /\ UNCHANGED <<inflight, clientTrainer, trainerClients, exercises, plans, workouts,
                       assignments, uploads, issued>>

\* The uploads collection loses a record while an assignment still
\* references it.  No code of the services removes an upload record (the
\* repository's Delete and the compensation of ConfirmUpload are commented
\* out): this is the store changed from outside, the case for which both
\* download operations test the lookup of the referenced record for ErrNotFound.
UploadRecordLost(id) ==
    /\ id \in DOMAIN uploads
    /\ uploads' = Remove(uploads, id)
    /\ ret' = Ret("UploadRecordLost", NilUser, id, "", OK, "none", 0, NoKey)
    /\ UNCHANGED <<inflight, clientTrainer, trainerClients, exercises, plans, workouts,
                   assignments, issued>>

\* ------------------------------------------------------------------------
\* Client service: status and performance
\* ------------------------------------------------------------------------
UpdateMyAssignmentStatusOutcome(clientID, assignmentID, newStatus, storeOk) ==
    IF newStatus = "" THEN ErrStatusEmpty
    ELSE IF newStatus # StatusCompleted THEN ErrInvalidAssignmentStatusUpdate
    ELSE IF assignmentID \notin DOMAIN assignments THEN ErrAssignmentNotFound
    ELSE IF assignments[assignmentID].workoutID \notin DOMAIN workouts THEN ErrWorkoutNotFound
    ELSE IF workouts[assignments[assignmentID].workoutID].clientID # clientID
         THEN ErrAssignmentNotBelongToClient
    ELSE IF ~storeOk THEN ErrStatusUpdateFailed
    ELSE OK

UpdateMyAssignmentStatus(clientID, assignmentID, newStatus, storeOk) ==
    LET outcome == UpdateMyAssignmentStatusOutcome(clientID, assignmentID, newStatus, storeOk)
    IN  /\ StoreReached(storeOk, UpdateMyAssignmentStatusOutcome(clientID, assignmentID,
                                      newStatus, TRUE))
        /\ assignments' =
              IF outcome = OK
              THEN AssignmentRepoUpdate(assignmentID,
                       [assignments[assignmentID] EXCEPT !.status = newStatus])
              ELSE assignments
        /\ ret' = Ret("UpdateMyAssignmentStatus", clientID, assignmentID, newStatus, outcome,
                      PriorStatus(assignmentID), 0, NoKey)
        /\ UNCHANGED <<inflight, clientTrainer, trainerClients, exercises, plans, workouts,
                       uploads, issued>>

\* LogPerformanceForMyAssignment without the comparison of workout.ClientID
\* with the caller.
LogPerformanceOutcomeNoClientCheck(clientID, assignmentID, storeOk) ==
    IF assignmentID \notin DOMAIN assignments THEN ErrAssignmentNotFound
    ELSE IF assignments[assignmentID].workoutID \notin DOMAIN workouts THEN ErrWorkoutNotFound
    ELSE IF ~storeOk THEN ErrLogPerformanceFailed
    ELSE OK

LogPerformanceOutcome(clientID, assignmentID, storeOk) ==
    IF assignmentID \notin DOMAIN assignments THEN ErrAssignmentNotFound
    ELSE IF assignments[assignmentID].workoutID \notin DOMAIN workouts THEN ErrWorkoutNotFound
    ELSE IF workouts[assignments[assignmentID].workoutID].clientID # clientID
         THEN ErrAssignmentNotBelongToClient
    ELSE IF ~storeOk THEN ErrLogPerformanceFailed
    ELSE OK

\* A status rule that marks every logged assignment completed.
LogPerformanceStatusAlwaysCompleted(status) == StatusCompleted

\* The status LogPerformanceForMyAssignment saves, given the current one.
LogPerformanceStatus(status) ==
    IF status = StatusAssigned THEN StatusCompleted ELSE status

LogPerformanceForMyAssignment(clientID, assignmentID, achievedSets, storeOk) ==
    LET outcome == LogPerformanceOutcome(clientID, assignmentID, storeOk) IN
        /\ StoreReached(storeOk, LogPerformanceOutcome(clientID, assignmentID, TRUE))
        /\ assignments' =
              IF outcome = OK
              THEN LET a == assignments[assignmentID]
                       a1 == [a EXCEPT !.achievedSets = achievedSets]
                       a2 == [a1 EXCEPT !.status = LogPerformanceStatus(@)]
                   IN AssignmentRepoUpdate(assignmentID, a2)
              ELSE assignments
        /\ ret' = Ret("LogPerformanceForMyAssignment", clientID, assignmentID, "", outcome,
                      PriorStatus(assignmentID), 0, NoKey)
        /\ UNCHANGED <<inflight, clientTrainer, trainerClients, exercises, plans, workouts,
                       uploads, issued>>

\* ------------------------------------------------------------------------
\* Specification
\* ------------------------------------------------------------------------
Next ==
    \/ \E t \in Trainers, e \in Emails : AddClientByEmail(t, e)
    \/ \E t \in Trainers : CreateExercise(t)
    \/ \E t \in Trainers, c \in Users, n \in Names, act \in ActiveValues :
          CreateTrainingPlan(t, c, n, act)
    \/ \E t \in Trainers, p \in PlanIds, n \in Names, c \in Clients \cup {NilUser},
          act \in ActiveValues, ok \in BOOLEAN : UpdateTrainingPlan(t, p, n, c, act, ok)
    \/ \E t \in Trainers, p \in PlanIds : DeleteTrainingPlan(t, p)
    \/ \E t \in Trainers, p \in PlanIds, n \in Names : CreateWorkout(t, p, n)
    \/ \E t \in Trainers, p \in PlanIds, w \in WorkoutIds, n \in Names :
          UpdateWorkout(t, p, w, n)
    \/ \E t \in Trainers, p \in PlanIds, w \in WorkoutIds : DeleteWorkout(t, p, w)
    \/ \E t \in Trainers, w \in WorkoutIds, e \in ExerciseIds, q \in SequenceValues :
          AssignExerciseToWorkout(t, w, e, q)
    \/ \E t \in Trainers, a \in AssignmentIds, f \in Feedbacks,
          st \in Statuses \cup {""}, ok \in BOOLEAN : SubmitFeedback(t, a, f, st, ok)
    \/ \E t \in Trainers, w \in WorkoutIds, a \in AssignmentIds,
          e \in ExerciseIds \cup {0}, q \in SequenceValues, ok \in BOOLEAN :
          UpdateAssignmentInWorkout(t, w, a, e, q, ok)
    \/ \E t \in Trainers, w \in WorkoutIds, a \in AssignmentIds :
          DeleteAssignmentFromWorkout(t, w, a)
    \/ \E c \in Clients, a \in AssignmentIds, ct \in ContentTypes, u \in UUIDs :
          RequestUploadURL(c, a, ct, u)
    \/ \E c \in Clients, a \in AssignmentIds, ok \in BOOLEAN :
       \E k \in ObjectKeys(c, a) \cup {NoKey} :
          ConfirmUpload(c, a, k, ok)
    \/ \E c \in Clients, a \in AssignmentIds, st \in Statuses \cup {""}, ok \in BOOLEAN :
          UpdateMyAssignmentStatus(c, a, st, ok)
    \/ \E c \in Clients, a \in AssignmentIds, v \in AchievedValues, ok \in BOOLEAN :
          LogPerformanceForMyAssignment(c, a, v, ok)

Spec == Init /\ [][Next]_vars

\* The plan operations alone, with room for a pair's second plan and with
\* both values of isActive.
PlanNext ==
    \/ \E t \in Trainers, e \in Emails : AddClientByEmail(t, e)
    \/ \E t \in Trainers, c \in Users, n \in Names, act \in BOOLEAN :
          CreateTrainingPlanWithin(MaxPlansOfPair, t, c, n, act)
    \/ \E t \in Trainers, p \in 1..MaxPlansOfPair, n \in Names,
          c \in Clients \cup {NilUser}, act \in BOOLEAN, ok \in BOOLEAN :
          UpdateTrainingPlan(t, p, n, c, act, ok)
    \/ \E t \in Trainers, p \in 1..MaxPlansOfPair : DeleteTrainingPlan(t, p)

PlanSpec == Init /\ [][PlanNext]_vars

\* The client management of the trainer service with its calls interleaved.
UsersNext ==
    \/ \E t \in Trainers, e \in Emails : AddClientByEmailCheck(t, e)
    \/ \E step \in {1, 2}, t \in Trainers, c \in Clients, ok \in BOOLEAN :
          AddClientByEmailWrite(step, t, c, ok)

UsersSpec == Init /\ [][UsersNext]_vars

\* The operations that link an exercise to a workout, with two exercises in
\* the library so that an update can name another exercise than the current.
AssignNext ==
    \/ \E t \in Trainers, e \in Emails : AddClientByEmail(t, e)
    \/ \E t \in Trainers : CreateExerciseWithin(MaxExercisesToLink, t)
    \/ \E t \in Trainers, c \in Users, n \in Names, act \in ActiveValues :
          CreateTrainingPlan(t, c, n, act)
    \/ \E t \in Trainers, p \in PlanIds, n \in Names : CreateWorkout(t, p, n)
    \/ \E t \in Trainers, w \in WorkoutIds, e \in 1..MaxExercisesToLink,
          q \in SequenceValues : AssignExerciseToWorkout(t, w, e, q)
    \/ \E t \in Trainers, w \in WorkoutIds, a \in AssignmentIds,
          e \in 0..MaxExercisesToLink, q \in SequenceValues, ok \in BOOLEAN :
          UpdateAssignmentInWorkout(t, w, a, e, q, ok)

AssignSpec == Init /\ [][AssignNext]_vars

\* The video flow from the upload to the download: what builds an assignment,
\* the upload operations, the feedback that opens a further upload, and the
\* two download operations.
VideoNext ==
    \/ \E t \in Trainers, e \in Emails : AddClientByEmail(t, e)
    \/ \E t \in Trainers : CreateExercise(t)
    \/ \E t \in Trainers, c \in Users, n \in Names, act \in ActiveValues :
          CreateTrainingPlan(t, c, n, act)
    \/ \E t \in Trainers, p \in PlanIds, n \in Names : CreateWorkout(t, p, n)
    \/ \E t \in Trainers, p \in PlanIds, w \in WorkoutIds : DeleteWorkout(t, p, w)
    \/ \E t \in Trainers, w \in WorkoutIds, e \in ExerciseIds, q \in SequenceValues :
          AssignExerciseToWorkout(t, w, e, q)
    \/ \E t \in Trainers, a \in AssignmentIds, f \in Feedbacks,
          st \in Statuses \cup {""}, ok \in BOOLEAN : SubmitFeedback(t, a, f, st, ok)
    \/ \E c \in Clients, a \in AssignmentIds, ct \in ContentTypes, u \in UUIDs :
          RequestUploadURL(c, a, ct, u)
    \/ \E c \in Clients, a \in AssignmentIds, ok \in BOOLEAN :
       \E k \in ObjectKeys(c, a) \cup {NoKey} :
          ConfirmUpload(c, a, k, ok)
    \/ \E t \in Trainers, a \in AssignmentIds : GetAssignmentVideoDownloadURL(t, a)
    \/ \E c \in Clients, a \in AssignmentIds : GetMyVideoDownloadURL(c, a)

VideoSpec == Init /\ [][VideoNext]_vars

\* The video flow over a store that can lose an upload record.
VideoStoreNext ==
    \/ VideoNext
    \/ \E u \in UploadIds : UploadRecordLost(u)

VideoStoreSpec == Init /\ [][VideoStoreNext]_vars

\* ------------------------------------------------------------------------
\* Trainer handlers: how a service error is answered
\* ------------------------------------------------------------------------
StatusOK == "200 OK"
StatusForbidden == "403 Forbidden"
StatusNotFound == "404 Not Found"
StatusInternalServerError == "500 Internal Server Error"

\* The error mapping of TrainerHandler.SubmitFeedbackForAssignment,
\* UpdateAssignmentInWorkout and DeleteAssignmentFromWorkout.  The test
\* errors.Is(err, errors.New("access denied: trainer does not own this
\* workout")) of the update handler compares with a fresh error value and is
\* never true, so it adds nothing to the forbidden answers.
TrainerHandlerStatus(op, outcome) ==
    IF outcome = OK THEN StatusOK
    ELSE IF op = "SubmitFeedback"
    THEN IF outcome \in {ErrAssignmentNotFound, ErrWorkoutNotFound} THEN StatusNotFound
         ELSE IF outcome \in {ErrAssignmentAccessDenied, ErrInvalidAssignmentStatusUpdate}
              THEN StatusForbidden
         ELSE StatusInternalServerError
    ELSE IF op = "UpdateAssignmentInWorkout"
    THEN IF outcome \in {ErrAssignmentNotFound, ErrWorkoutNotFound, ErrExerciseNotFound}
         THEN StatusNotFound
         ELSE IF outcome \in {ErrAssignmentAccessDenied, ErrExerciseAccessDenied}
              THEN StatusForbidden
         ELSE StatusInternalServerError
    ELSE IF op = "DeleteAssignmentFromWorkout"
    THEN IF outcome \in {ErrAssignmentNotFound, ErrWorkoutNotFound, ErrAssignmentAccessDenied}
         THEN StatusForbidden
         ELSE StatusInternalServerError
    ELSE StatusInternalServerError

\* ------------------------------------------------------------------------
\* Properties
\* ------------------------------------------------------------------------
\* workout.TrainerID and workout.ClientID of the workout an assignment belongs
\* to, as the authorization checks of the two services read them (NilUser when
\* the assignment or its workout is not in the store).
AssignmentTrainer(assignmentID) ==
    IF assignmentID \in DOMAIN assignments
       /\ assignments[assignmentID].workoutID \in DOMAIN workouts
    THEN workouts[assignments[assignmentID].workoutID].trainerID
    ELSE NilUser

AssignmentClient(assignmentID) ==
    IF assignmentID \in DOMAIN assignments
       /\ assignments[assignmentID].workoutID \in DOMAIN workouts
    THEN workouts[assignments[assignmentID].workoutID].clientID
    ELSE NilUser

TrainerAssignmentOps ==
    {"SubmitFeedback", "UpdateAssignmentInWorkout", "DeleteAssignmentFromWorkout"}

ClientAssignmentOps ==
    {"UpdateMyAssignmentStatus", "LogPerformanceForMyAssignment", "RequestUploadURL",
     "ConfirmUpload"}

\* What a client operation answers to a request it refuses for its arguments
\* alone, before it looks at the assignment.
RequestRefusals ==
    {ErrInvalidContentType, ErrKeyRequired, ErrStatusEmpty, ErrInvalidAssignmentStatusUpdate}

\* C1: in every step that is a successful SubmitFeedback,
\* UpdateAssignmentInWorkout or DeleteAssignmentFromWorkout call, the calling
\* trainer is the trainer of the workout the assignment belonged to when the
\* call was made; this holds in every reachable state, whatever trainers and
\* clients did before.
C1_OnlyOwningTrainerSucceeds ==
    [][(ret'.op \in TrainerAssignmentOps /\ ret'.outcome = OK)
          => AssignmentTrainer(ret'.id) = ret'.actor]_vars

\* A SubmitFeedback call of the owning trainer has just succeeded.
C1_Witness ==
    /\ ret.op = "SubmitFeedback"
    /\ ret.outcome = OK
    /\ ret.actor = AssignmentTrainer(ret.id)

C3_ConfirmUploadForcesSubmitted ==
    (ret.op = "ConfirmUpload" /\ ret.outcome # ErrKeyRequired
     /\ AssignmentClient(ret.id) = ret.actor
     /\ ~(ret.outcome # OK /\ ret.created # 0))
        => /\ ret.outcome = OK
           /\ ret.created \in DOMAIN uploads
           /\ assignments[ret.id].status = StatusSubmitted
           /\ assignments[ret.id].uploadID = ret.created

C5_FailedConfirmLeavesNoUpload ==
    (ret.op = "ConfirmUpload" /\ ret.outcome # OK /\ ret.created # 0)
        => ret.created \notin DOMAIN uploads

C7_OneUploadPerAssignment ==
    \A u1, u2 \in DOMAIN uploads :
        uploads[u1].assignmentID = uploads[u2].assignmentID => u1 = u2

\* An assignment has its upload document and a further ConfirmUpload of the
\* owning client for it has just been refused at the insert.
C7_Witness ==
    /\ ret.op = "ConfirmUpload"
    /\ AssignmentClient(ret.id) = ret.actor
    /\ ret.outcome = ErrUploadConfirmationFailed
    /\ ret.created = 0
    /\ \E u \in DOMAIN uploads : uploads[u].assignmentID = ret.id

\* C8: after a SubmitFeedback call of the owning trainer with target status
\* reviewed or assigned, the call has succeeded and the assignment has exactly
\* that status.  The calls whose assignment update the store refused are left
\* out: the property fails without them.
C8_FeedbackSetsReviewedOrAssigned ==
    (ret.op = "SubmitFeedback" /\ ret.arg \in {StatusReviewed, StatusAssigned}
     /\ AssignmentTrainer(ret.id) = ret.actor
     /\ ret.outcome # ErrStore)
        => /\ ret.outcome = OK
           /\ assignments[ret.id].status = ret.arg

C10_ClientSetsOnlyCompleted ==
    [][(ret'.op = "UpdateMyAssignmentStatus" /\ AssignmentClient(ret'.id) = ret'.actor)
          => /\ ret'.arg = StatusCompleted
                  => /\ ret'.outcome = OK
                     /\ assignments'[ret'.id].status = StatusCompleted
             /\ ret'.arg \in Statuses \ {StatusCompleted}
                  => /\ ret'.outcome # OK
                     /\ assignments' = assignments]_vars

C13_WorkoutDenormalised ==
    \A w \in DOMAIN workouts :
        workouts[w].trainingPlanID \in DOMAIN plans
            => /\ workouts[w].trainerID = plans[workouts[w].trainingPlanID].trainerID
               /\ workouts[w].clientID = plans[workouts[w].trainingPlanID].clientID

\* A workout and its plan after a successful update of the workout or of the plan.
C13_Witness ==
    /\ ret.op \in {"UpdateWorkout", "UpdateTrainingPlan"}
    /\ ret.outcome = OK
    /\ \E w \in DOMAIN workouts :
          /\ workouts[w].trainingPlanID \in DOMAIN plans
          /\ ret.id \in {w, workouts[w].trainingPlanID}
          /\ workouts[w].clientID \in Clients

\* C14: after any sequence of CreateTrainingPlan and UpdateTrainingPlan
\* operations, a client-trainer pair has at most one plan with isActive = true.
C14_AtMostOneActivePlan ==
    \A p, q \in DOMAIN plans :
        ( /\ plans[p].trainerID = plans[q].trainerID
          /\ plans[p].clientID = plans[q].clientID
          /\ plans[p].isActive
          /\ plans[q].isActive ) => p = q

\* C15: at every point, between the two writes of AddClientByEmail and after
\* a call that failed part-way included, a client whose trainer reference is
\* T is in T's client set.
C15_TrainerRefInClientSet ==
    \A c \in Clients :
        clientTrainer[c] # NilUser => c \in trainerClients[clientTrainer[c]]

\* A client with its reference set, while another call is between its two
\* writes and after a call whose second write the store refused.
C15_Witness ==
    /\ \E c \in Clients : clientTrainer[c] # NilUser
    /\ \E call \in inflight : call.step = 2
    /\ ret.op = "AddClientByEmail"
    /\ ret.outcome = ErrStore
    /\ \E c \in trainerClients[ret.actor] : clientTrainer[c] # ret.actor

\* C16: after a successful DeleteTrainingPlan no workout of that plan is left
\* in the store, and after a successful DeleteWorkout no assignment of that
\* workout is left in the store.
C16_DeleteCascades ==
    /\ (ret.op = "DeleteTrainingPlan" /\ ret.outcome = OK)
          => \A w \in DOMAIN workouts : workouts[w].trainingPlanID # ret.id
    /\ (ret.op = "DeleteWorkout" /\ ret.outcome = OK)
          => \A a \in DOMAIN assignments : assignments[a].workoutID # ret.id

\* C17: a plan or a workout leaves the store only in a delete step requested
\* for that record's id by the trainer who owns the record; whatever
\* operations come before, a delete requested by T removes no record of
\* another trainer.
C17_DeleteOwnerGated ==
    [][ /\ \A p \in DOMAIN plans \ DOMAIN plans' :
              /\ ret'.op = "DeleteTrainingPlan"
              /\ ret'.id = p
              /\ ret'.actor = plans[p].trainerID
        /\ \A w \in DOMAIN workouts \ DOMAIN workouts' :
              /\ ret'.op = "DeleteWorkout"
              /\ ret'.id = w
              /\ ret'.actor = workouts[w].trainerID ]_vars

\* A delete requested by a trainer who does not own the plan: the plan stays.
C17_Witness ==
    /\ ret.op = "DeleteTrainingPlan"
    /\ ret.outcome = ErrTrainingPlanAccessDenied
    /\ ret.id \in DOMAIN plans
    /\ plans[ret.id].trainerID # ret.actor

C19_OrphanAssignmentFault ==
    (/\ ret.op \in {"SubmitFeedback", "UpdateMyAssignmentStatus",
                    "LogPerformanceForMyAssignment", "RequestUploadURL", "ConfirmUpload"}
     /\ ret.id \in DOMAIN assignments
     /\ assignments[ret.id].workoutID \notin DOMAIN workouts)
        => ret.outcome \notin {ErrAssignmentNotFound, ErrWorkoutNotFound}

\* C20: a SubmitFeedback, UpdateAssignmentInWorkout or
\* DeleteAssignmentFromWorkout call on an existing assignment by a trainer
\* who does not own the assignment's workout is answered with AccessDenied
\* (the service's access-denied error, reported as forbidden), whatever the
\* other arguments of the call are.
C20_NonOwnerAccessDenied ==
    (/\ ret.op \in TrainerAssignmentOps
     /\ ret.id \in DOMAIN assignments
     /\ AssignmentTrainer(ret.id) \notin {NilUser, ret.actor})
        => /\ ret.outcome = ErrAssignmentAccessDenied
           /\ TrainerHandlerStatus(ret.op, ret.outcome) = StatusForbidden

\* The outcomes of a refused store call (an insert or an update that failed).
StoreFailures ==
    {ErrStore, ErrStatusUpdateFailed, ErrLogPerformanceFailed, ErrUpdateAssignmentFailed,
     ErrUploadConfirmationFailed}

\* C21: a call that ends in an authorization or validation failure (any
\* failure that is not the failure of a store call) leaves the stored users,
\* plans, workouts, assignments and uploads as they were before the call.
C21_RefusalChangesNothing ==
    [][ret'.outcome \notin ({OK} \cup StoreFailures)
          => UNCHANGED <<clientTrainer, trainerClients, plans, workouts,
                         assignments, uploads>>]_vars

\* A trainer has just been refused a client that another trainer manages.
C21_Witness ==
    /\ ret.op = "AddClientByEmail"
    /\ ret.outcome = ErrClientAlreadyAssigned
    /\ \E c \in Clients : clientTrainer[c] \notin {NilUser, ret.actor}
    /\ trainerClients[ret.actor] = {}

UpdateOps ==
    {"UpdateTrainingPlan", "UpdateWorkout", "UpdateAssignmentInWorkout", "SubmitFeedback",
     "UpdateMyAssignmentStatus", "LogPerformanceForMyAssignment", "ConfirmUpload"}

\* C22: no update operation changes a plan's trainerID or clientID, a
\* workout's trainingPlanID, trainerID or clientID, or an assignment's
\* workoutID.
C22_ParentLinkageFixed ==
    [][ret'.op \in UpdateOps
          => /\ DOMAIN plans' = DOMAIN plans
             /\ \A p \in DOMAIN plans :
                   /\ plans'[p].trainerID = plans[p].trainerID
                   /\ plans'[p].clientID = plans[p].clientID
             /\ DOMAIN workouts' = DOMAIN workouts
             /\ \A w \in DOMAIN workouts :
                   /\ workouts'[w].trainingPlanID = workouts[w].trainingPlanID
                   /\ workouts'[w].trainerID = workouts[w].trainerID
                   /\ workouts'[w].clientID = workouts[w].clientID
             /\ DOMAIN assignments' = DOMAIN assignments
             /\ \A a \in DOMAIN assignments :
                   assignments'[a].workoutID = assignments[a].workoutID]_vars

\* A plan, a workout in it and an assignment in the workout, after a
\* successful update of one of them.
C22_Witness ==
    /\ ret.op \in {"UpdateTrainingPlan", "UpdateWorkout", "UpdateAssignmentInWorkout"}
    /\ ret.outcome = OK
    /\ \E a \in DOMAIN assignments :
          /\ assignments[a].workoutID \in DOMAIN workouts
          /\ workouts[assignments[a].workoutID].trainingPlanID \in DOMAIN plans
          /\ plans[workouts[assignments[a].workoutID].trainingPlanID].trainerID = ret.actor

C24_LinkNeedsOwnedWorkoutAndExercise ==
    [][/\ (ret'.op = "AssignExerciseToWorkout" /\ ret'.outcome = OK)
          => LET a == assignments'[ret'.id] IN
             /\ a.workoutID \in DOMAIN workouts
             /\ workouts[a.workoutID].trainerID = ret'.actor
             /\ a.exerciseID \in DOMAIN exercises
             /\ exercises[a.exerciseID].trainerID = ret'.actor
       /\ (ret'.op = "UpdateAssignmentInWorkout" /\ ret'.outcome = OK)
          => LET old == assignments[ret'.id]
                 new == assignments'[ret'.id]
             IN /\ old.workoutID \in DOMAIN workouts
                /\ workouts[old.workoutID].trainerID = ret'.actor
                /\ new.exerciseID # old.exerciseID
                      => /\ new.exerciseID \in DOMAIN exercises
                         /\ exercises[new.exerciseID].trainerID = ret'.actor]_vars

\* The workout's trainer has just been refused the swap of the assignment's
\* exercise for an exercise of another trainer.
C24_Witness ==
    /\ ret.op = "UpdateAssignmentInWorkout"
    /\ ret.outcome = ErrExerciseAccessDenied
    /\ AssignmentTrainer(ret.id) = ret.actor
    /\ exercises[assignments[ret.id].exerciseID].trainerID = ret.actor

DownloadOps == {"GetAssignmentVideoDownloadURL", "GetMyVideoDownloadURL"}

NoUploadLinked(op) ==
    IF op = "GetAssignmentVideoDownloadURL" THEN ErrUploadNotFoundForAssignment
    ELSE ErrUploadMetadataMissing

C27_DownloadOnlyForOwners ==
    (ret.op \in DownloadOps /\ ret.id \in DOMAIN assignments)
        => LET owner == IF ret.op = "GetAssignmentVideoDownloadURL"
                        THEN AssignmentTrainer(ret.id)
                        ELSE AssignmentClient(ret.id)
           IN /\ (ret.outcome = OK \/ ret.key # NoKey)
                    => owner # NilUser /\ ret.actor = owner
              /\ ret.actor # owner => ret.outcome # OK /\ ret.key = NoKey

\* A trainer who does not own the workout has just been refused the URL of an
\* upload that is in the store.
C27_Witness ==
    /\ ret.op = "GetAssignmentVideoDownloadURL"
    /\ ret.outcome = ErrAssignmentAccessDenied
    /\ ret.key = NoKey
    /\ AssignmentTrainer(ret.id) \notin {NilUser, ret.actor}
    /\ assignments[ret.id].uploadID \in DOMAIN uploads

\* C28: an operation in which a store call fails returns a failure.  For
\* UpdateTrainingPlan: a call whose DeactivateOtherPlansForClient the store
\* refused does not report success.
C28_NoFailureSwallowed ==
    [][ret'.op = "UpdateTrainingPlan"
          => \A n \in Names, c \in Clients \cup {NilUser}, act \in BOOLEAN :
                UpdateTrainingPlan(ret'.actor, ret'.id, n, c, act, FALSE)
                   => ret'.outcome # OK]_vars

\* C29: an update or delete of a plan or workout answers NotFound exactly for
\* an entity that is not in the store and AccessDenied only for one that is.
\* A refused call changes nothing, so the store after the call is the store
\* the call looked at.
C29_NotFoundAndDeniedDistinct ==
    /\ ret.op \in {"UpdateTrainingPlan", "DeleteTrainingPlan"}
          => /\ ret.outcome = ErrTrainingPlanAccessDenied => ret.id \in DOMAIN plans
             /\ ret.outcome = ErrTrainingPlanNotFound => ret.id \notin DOMAIN plans
    /\ ret.op \in {"UpdateWorkout", "DeleteWorkout"}
          => /\ ret.outcome = ErrWorkoutNotOwned => ret.id \in DOMAIN workouts
             /\ ret.outcome = ErrWorkoutNotFound => ret.id \notin DOMAIN workouts

\* A call of the assignment's trainer or client that leaves the assignment
\* with another status than it had.
MovesStatus(assignmentID) ==
    /\ \/ \E f \in Feedbacks, st \in Statuses \cup {""}, ok \in BOOLEAN :
             SubmitFeedback(AssignmentTrainer(assignmentID), assignmentID, f, st, ok)
       \/ \E ok \in BOOLEAN :
          \E k \in ObjectKeys(AssignmentClient(assignmentID), assignmentID) :
             ConfirmUpload(AssignmentClient(assignmentID), assignmentID, k, ok)
       \/ \E st \in Statuses \cup {""}, ok \in BOOLEAN :
             UpdateMyAssignmentStatus(AssignmentClient(assignmentID), assignmentID, st, ok)
    /\ assignments'[assignmentID].status # assignments[assignmentID].status

C31_AddClientRefusals ==
    [][ret'.op = "AddClientByEmail"
          => \A e \in Emails :
                AddClientByEmail(ret'.actor, e)
                   => LET client == GetByEmail(e) IN
                      /\ client = NilUser => ret'.outcome = ErrClientNotFound
                      /\ (client # NilUser /\ Role(client) # RoleClient)
                            => ret'.outcome = ErrClientNotRole
                      /\ (client \in Clients
                          /\ clientTrainer[client] \notin {NilUser, ret'.actor})
                            => ret'.outcome = ErrClientAlreadyAssigned
                      /\ ret'.outcome \in {ErrClientNotFound, ErrClientNotRole,
                                           ErrClientAlreadyAssigned}
                            => UNCHANGED <<trainerClients, clientTrainer>>]_vars

\* A trainer has been refused a client who is linked to the other trainer.
C31_Witness ==
    /\ ret.op = "AddClientByEmail"
    /\ ret.outcome = ErrClientAlreadyAssigned
    /\ \E c \in Clients : clientTrainer[c] \notin {NilUser, ret.actor}

\* ------------------------------------------------------------------------
\* Routes and the role middleware
\* ------------------------------------------------------------------------
\* The handlers registered in the /trainer group and in the /client group.
TrainerRoutes ==
    {"AddClientByEmail", "CreateTrainingPlan", "UpdateTrainingPlan", "DeleteTrainingPlan",
     "CreateWorkout", "UpdateWorkout", "DeleteWorkout", "AssignExerciseToWorkout",
     "SubmitFeedback", "UpdateAssignmentInWorkout", "DeleteAssignmentFromWorkout",
     "GetAssignmentVideoDownloadURL"}

ClientRoutes ==
    {"RequestUploadURL", "ConfirmUpload", "UpdateMyAssignmentStatus",
     "LogPerformanceForMyAssignment"}

\* POST /exercises carries RoleMiddleware(RoleTrainer) on the route itself.
ExerciseRoutes == {"CreateExercise"}

Routes == TrainerRoutes \cup ClientRoutes \cup ExerciseRoutes

\* The allowed roles with DeleteTrainingPlan registered outside the group.
RouteRolesDeleteOpen(route) ==
    IF route = "DeleteTrainingPlan" THEN {RoleTrainer, RoleClient}
    ELSE IF route \in ClientRoutes THEN {RoleClient}
    ELSE {RoleTrainer}

\* The roles handed to RoleMiddleware for a route.
RouteRoles(route) ==
    IF route \in ClientRoutes THEN {RoleClient} ELSE {RoleTrainer}

\* RoleMiddleware: whether the role of the token is in the allowed list.
RoleMiddleware(allowedRoles, userRole) == userRole \in allowedRoles

\* abortWithError(c, http.StatusForbidden, ...): the handler does not run.
RoleAbort(user, route) ==
    /\ ret' = Ret(route, user, 0, "", StatusForbidden, "none", 0, NoKey)
    /\ UNCHANGED <<inflight, clientTrainer, trainerClients, exercises, plans, workouts,
                   assignments, uploads, issued>>

\* A request of an authenticated user on a route: the middleware, then the
\* handler.
Serve(user, route, handler) ==
    IF RoleMiddleware(RouteRoles(route), Role(user)) THEN handler ELSE RoleAbort(user, route)

\* The requests draw one well-formed body per route and a store that answers
\* without error: what the middleware decides depends on neither.
RouteNext ==
    \/ \E u \in Users, e \in Emails : Serve(u, "AddClientByEmail", AddClientByEmail(u, e))
    \/ \E u \in Users : Serve(u, "CreateExercise", CreateExercise(u))
    \/ \E u \in Users, c \in Users :
          Serve(u, "CreateTrainingPlan", CreateTrainingPlan(u, c, "n", TRUE))
    \/ \E u \in Users, p \in PlanIds :
          Serve(u, "UpdateTrainingPlan", UpdateTrainingPlan(u, p, "n", NilUser, TRUE, TRUE))
    \/ \E u \in Users, p \in PlanIds :
          Serve(u, "DeleteTrainingPlan", DeleteTrainingPlan(u, p))
    \/ \E u \in Users, p \in PlanIds :
          Serve(u, "CreateWorkout", CreateWorkout(u, p, "n"))
    \/ \E u \in Users, p \in PlanIds, w \in WorkoutIds :
          Serve(u, "UpdateWorkout", UpdateWorkout(u, p, w, "n"))
    \/ \E u \in Users, p \in PlanIds, w \in WorkoutIds :
          Serve(u, "DeleteWorkout", DeleteWorkout(u, p, w))
    \/ \E u \in Users, w \in WorkoutIds, e \in ExerciseIds :
          Serve(u, "AssignExerciseToWorkout", AssignExerciseToWorkout(u, w, e, 0))
    \/ \E u \in Users, a \in AssignmentIds :
          Serve(u, "SubmitFeedback", SubmitFeedback(u, a, "good", StatusReviewed, TRUE))
    \/ \E u \in Users, w \in WorkoutIds, a \in AssignmentIds :
          Serve(u, "UpdateAssignmentInWorkout", UpdateAssignmentInWorkout(u, w, a, 0, 1, TRUE))
    \/ \E u \in Users, w \in WorkoutIds, a \in AssignmentIds :
          Serve(u, "DeleteAssignmentFromWorkout", DeleteAssignmentFromWorkout(u, w, a))
    \/ \E u \in Users, a \in AssignmentIds :
          Serve(u, "GetAssignmentVideoDownloadURL", GetAssignmentVideoDownloadURL(u, a))
    \/ \E u \in Users, a \in AssignmentIds :
          Serve(u, "RequestUploadURL", RequestUploadURL(u, a, "video/mp4", "u1"))
    \/ \E u \in Users, a \in AssignmentIds :
          Serve(u, "ConfirmUpload", ConfirmUpload(u, a, ObjectKey(u, a, "u1"), TRUE))
    \/ \E u \in Users, a \in AssignmentIds :
          Serve(u, "UpdateMyAssignmentStatus",
                UpdateMyAssignmentStatus(u, a, StatusCompleted, TRUE))
    \/ \E u \in Users, a \in AssignmentIds :
          Serve(u, "LogPerformanceForMyAssignment",
                LogPerformanceForMyAssignment(u, a, 3, TRUE))

RouteSpec == Init /\ [][RouteNext]_vars

\* C32: a trainer route called by a client, and a client route called by a
\* trainer, is refused as forbidden, and the refused request leaves every
\* collection as it was.
C32_WrongRoleRefused ==
    [][(\/ ret'.op \in TrainerRoutes \cup ExerciseRoutes /\ Role(ret'.actor) = RoleClient
        \/ ret'.op \in ClientRoutes /\ Role(ret'.actor) = RoleTrainer)
          => /\ ret'.outcome = StatusForbidden
             /\ UNCHANGED <<inflight, clientTrainer, trainerClients, exercises, plans,
                            workouts, assignments, uploads, issued>>]_vars

\* A client has been refused on a trainer route while the store has a plan the
\* request could have touched.
C32_Witness ==
    /\ ret.op = "DeleteTrainingPlan"
    /\ ret.actor \in Clients
    /\ ret.outcome = StatusForbidden
    /\ plans # <<>>

\* C33: the assignment a successful AssignExerciseToWorkout creates is new, has
\* status assigned and no upload reference, carries the sequence the caller
\* gave and belongs to the workout it was assigned to.
C33_NewAssignmentShape ==
    [][(ret'.op = "AssignExerciseToWorkout" /\ ret'.outcome = OK)
          => \A w \in WorkoutIds, e \in 1..MaxExercisesToLink, q \in SequenceValues :
                AssignExerciseToWorkout(ret'.actor, w, e, q)
                   => /\ ret'.created \notin DOMAIN assignments
                      /\ ret'.created \in DOMAIN assignments'
                      /\ assignments'[ret'.created].status = StatusAssigned
                      /\ assignments'[ret'.created].uploadID = 0
                      /\ assignments'[ret'.created].sequence = q
                      /\ assignments'[ret'.created].workoutID = w
                      /\ assignments'[ret'.created].exerciseID = e]_vars

\* An exercise has been assigned to a workout at sequence 1.
C33_Witness ==
    /\ ret.op = "AssignExerciseToWorkout"
    /\ ret.outcome = OK
    /\ ret.created \in DOMAIN assignments
    /\ assignments[ret.created].sequence = 1
    /\ assignments[ret.created].workoutID \in DOMAIN workouts

SubmitFeedbackRead(trainerID, assignmentID, feedback, newStatus) ==
    LET outcome == SubmitFeedbackOutcome(trainerID, assignmentID, newStatus, TRUE) IN
        /\ outcome = OK => Cardinality(inflight) < MaxInflight
        /\ IF outcome = OK
           THEN LET a == assignments[assignmentID]
                    a1 == [a EXCEPT !.feedback = feedback]
                    a2 == IF newStatus # "" THEN [a1 EXCEPT !.status = newStatus] ELSE a1
                IN  /\ inflight' = inflight \cup
                          {[op |-> "SubmitFeedback", actor |-> trainerID,
                            id |-> assignmentID, doc |-> a2]}
                    /\ UNCHANGED ret
           ELSE /\ ret' = Ret("SubmitFeedback", trainerID, assignmentID, newStatus, outcome,
                              PriorStatus(assignmentID), 0, NoKey)
                /\ UNCHANGED inflight
        /\ UNCHANGED <<clientTrainer, trainerClients, exercises, plans, workouts,
                       assignments, uploads, issued>>

\* Steps 1-4 of LogPerformanceForMyAssignment.
LogPerformanceRead(clientID, assignmentID, achievedSets) ==
    LET outcome == LogPerformanceOutcome(clientID, assignmentID, TRUE) IN
        /\ outcome = OK => Cardinality(inflight) < MaxInflight
        /\ IF outcome = OK
           THEN LET a == assignments[assignmentID]
                    a1 == [a EXCEPT !.achievedSets = achievedSets]
                    a2 == [a1 EXCEPT !.status = LogPerformanceStatus(@)]
                IN  /\ inflight' = inflight \cup
                          {[op |-> "LogPerformanceForMyAssignment", actor |-> clientID,
                            id |-> assignmentID, doc |-> a2]}
                    /\ UNCHANGED ret
           ELSE /\ ret' = Ret("LogPerformanceForMyAssignment", clientID, assignmentID, "",
                              outcome, PriorStatus(assignmentID), 0, NoKey)
                /\ UNCHANGED inflight
        /\ UNCHANGED <<clientTrainer, trainerClients, exercises, plans, workouts,
                       assignments, uploads, issued>>

\* Steps 1-4 of ConfirmUpload: the reads, the checks and the insert of the
\* upload record.  A call whose insert went through is in flight with the
\* struct it is going to save: the new upload reference and status submitted.
ConfirmUploadRead(clientID, assignmentID, objectKey) ==
    LET auth == ConfirmUploadAuthOutcome(clientID, assignmentID, objectKey)
        id == issued.upload + 1
    IN  IF auth # OK
        THEN /\ ret' = Ret("ConfirmUpload", clientID, assignmentID, "", auth,
                           PriorStatus(assignmentID), 0, NoKey)
             /\ UNCHANGED <<inflight, clientTrainer, trainerClients, exercises, plans, workouts,
                            assignments, uploads, issued>>
        ELSE LET a == assignments[assignmentID]
                 upload == [assignmentID |-> assignmentID, clientID |-> clientID,
                            trainerID |-> workouts[a.workoutID].trainerID,
                            s3ObjectKey |-> objectKey]
             IN  IF ~UploadRepoCreateOk(upload)
                 THEN /\ ret' = Ret("ConfirmUpload", clientID, assignmentID, "",
                                    ErrUploadConfirmationFailed, a.status, 0, NoKey)
                      /\ UNCHANGED <<inflight, clientTrainer, trainerClients, exercises, plans,
                                     workouts, assignments, uploads, issued>>
                 ELSE /\ issued.upload < MaxUploads
                      /\ Cardinality(inflight) < MaxInflight
                      /\ issued' = [issued EXCEPT !.upload = id]
                      /\ uploads' = uploads @@ (id :> upload)
                      /\ inflight' = inflight \cup
                            {[op |-> "ConfirmUpload", actor |-> clientID, id |-> assignmentID,
                              doc |-> [a EXCEPT !.uploadID = id, !.status = StatusSubmitted]]}
                      /\ UNCHANGED <<ret, clientTrainer, trainerClients, exercises, plans,
                                     workouts, assignments>>

\* The calls that can be in flight: the operation, its caller, the assignment
\* and the struct the call is going to save.
AssignmentCalls ==
    [op : {"SubmitFeedback", "LogPerformanceForMyAssignment", "ConfirmUpload"},
     actor : Users,
     id : AssignmentIds,
     doc : [workoutID : WorkoutIds, exerciseID : ExerciseIds, sequence : SequenceValues,
            status : Statuses, uploadID : UploadIds \cup {0}, feedback : Feedbacks \cup {""},
            achievedSets : AchievedValues \cup {0}]]

\* The last step of each of these calls: assignmentRepo.Update with the struct
\* the call holds, and the return.  ConfirmUpload leaves the upload record it
\* inserted when the update fails.
AssignmentSave(call, storeOk) ==
    /\ call \in inflight
    /\ call.id \in DOMAIN assignments
    /\ inflight' = inflight \ {call}
    /\ assignments' = IF storeOk THEN AssignmentRepoUpdate(call.id, call.doc)
                      ELSE assignments
    /\ ret' = Ret(call.op, call.actor, call.id, "",
                  IF storeOk THEN OK
                  ELSE IF call.op = "SubmitFeedback" THEN ErrStore
                  ELSE IF call.op = "ConfirmUpload" THEN ErrUploadConfirmationFailed
                  ELSE ErrLogPerformanceFailed,
                  PriorStatus(call.id), 0, NoKey)
    /\ UNCHANGED <<clientTrainer, trainerClients, exercises, plans, workouts, uploads, issued>>

RaceNext ==
    \/ \E t \in Trainers, e \in Emails : AddClientByEmail(t, e)
    \/ \E t \in Trainers : CreateExercise(t)
    \/ \E t \in Trainers, c \in Users, n \in Names, act \in ActiveValues :
          CreateTrainingPlan(t, c, n, act)
    \/ \E t \in Trainers, p \in PlanIds, n \in Names : CreateWorkout(t, p, n)
    \/ \E t \in Trainers, w \in WorkoutIds, e \in ExerciseIds, q \in SequenceValues :
          AssignExerciseToWorkout(t, w, e, q)
    \/ \E t \in Trainers, a \in AssignmentIds, f \in Feedbacks, st \in {"", StatusReviewed} :
          SubmitFeedbackRead(t, a, f, st)
    \/ \E c \in Clients, a \in AssignmentIds, v \in AchievedValues :
          LogPerformanceRead(c, a, v)
    \/ \E call \in AssignmentCalls, ok \in BOOLEAN : AssignmentSave(call, ok)

RaceSpec == Init /\ [][RaceNext]_vars

\* The same with ConfirmUpload among the calls that overlap; every request
\* carries one well-formed body.
SubmitRaceNext ==
    \/ \E t \in Trainers, c \in Clients : AddClientByEmail(t, c)
    \/ \E t \in Trainers : CreateExercise(t)
    \/ \E t \in Trainers, c \in Clients : CreateTrainingPlan(t, c, "n", TRUE)
    \/ \E t \in Trainers, p \in PlanIds : CreateWorkout(t, p, "n")
    \/ \E t \in Trainers, w \in WorkoutIds, e \in ExerciseIds :
          AssignExerciseToWorkout(t, w, e, 0)
    \/ \E t \in Trainers, a \in AssignmentIds, st \in {"", StatusReviewed} :
          SubmitFeedbackRead(t, a, "good", st)
    \/ \E c \in Clients, a \in AssignmentIds : LogPerformanceRead(c, a, 3)
    \/ \E c \in Clients, a \in AssignmentIds :
          ConfirmUploadRead(c, a, ObjectKey(c, a, "u1"))
    \/ \E call \in AssignmentCalls, ok \in BOOLEAN : AssignmentSave(call, ok)

SubmitRaceSpec == Init /\ [][SubmitRaceNext]_vars

C36_ParentsExist ==
    /\ \A a \in DOMAIN assignments : assignments[a].workoutID \in DOMAIN workouts
    /\ \A w \in DOMAIN workouts : workouts[w].trainingPlanID \in DOMAIN plans

AllObjectKeys == UNION {ObjectKeys(c, a) : c \in Clients, a \in AssignmentIds}

KeyNext ==
    \/ \E t \in Trainers, c \in Clients : AddClientByEmail(t, c)
    \/ \E t \in Trainers : CreateExercise(t)
    \/ \E t \in Trainers, c \in Clients : CreateTrainingPlan(t, c, "n", TRUE)
    \/ \E t \in Trainers, p \in PlanIds : CreateWorkout(t, p, "n")
    \/ \E t \in Trainers, w \in WorkoutIds, e \in ExerciseIds :
          AssignExerciseToWorkout(t, w, e, 0)
    \/ \E c \in Clients, a \in AssignmentIds, u \in UUIDs :
          RequestUploadURL(c, a, "video/mp4", u)
    \/ \E c \in Clients, a \in AssignmentIds, k \in AllObjectKeys, ok \in BOOLEAN :
          ConfirmUpload(c, a, k, ok)
    \/ \E c \in Clients, a \in AssignmentIds : GetMyVideoDownloadURL(c, a)
    \/ \E t \in Trainers, a \in AssignmentIds : GetAssignmentVideoDownloadURL(t, a)

KeySpec == Init /\ [][KeyNext]_vars

\* C38: the key recorded in the upload of an assignment is a key that
\* RequestUploadURL returned for the same client and assignment, so that a
\* download for the assignment never asks storage for a key issued for another
\* client or another assignment.  RequestUploadURL returns keys under
\* uploads/<client>/<assignment>/ only.
C38_UploadKeyOfSameClientAndAssignment ==
    /\ \A u \in DOMAIN uploads :
          uploads[u].s3ObjectKey \in ObjectKeys(uploads[u].clientID, uploads[u].assignmentID)
    /\ (ret.op \in DownloadOps /\ ret.outcome = OK)
          => ret.key \in ObjectKeys(AssignmentClient(ret.id), ret.id)

\* C39: two AddClient calls of different trainers for one client never both
\* succeed.  The client's trainer reference is written by the last write of a
\* call that succeeds and by nothing else, so a call that succeeds for a client
\* finds no reference to another trainer on it.
C39_OneTrainerWinsClient ==
    [][\A t \in Trainers, c \in Clients :
          (AddClientByEmailWrite(2, t, c, TRUE) /\ ret'.outcome = OK)
             => clientTrainer[c] \in {NilUser, t}]_vars

\* C40: whenever no AddClient call is between its steps, every client in a
\* trainer's client set has that trainer as its trainer reference, calls that
\* returned an error included.
C40_ClientSetMatchesTrainerRef ==
    inflight = {}
       => \A t \in Trainers : \A c \in trainerClients[t] : clientTrainer[c] = t

====
